---- MODULE Spec2Model ----
(***************************************************************************)
(* scx_gamesched: a sched_ext scheduler with four priority dispatch queues *)
(* (DSQs), CPU pinning and CPU isolation, and its userspace CLI.           *)
(*                                                                         *)
(* The BPF callbacks (select_cpu, enqueue, dispatch) and the CLI commands  *)
(* (add, remove, isolate, pin) are one action each.  The sched_ext host    *)
(* (idle mask, local DSQs, the default CPU pick, the tasks' affinity and   *)
(* flags) is modelled by the contract of the helpers the callbacks call.   *)
(* enqueue and dispatch are also given statement by statement, for calls   *)
(* that overlap, and init and exit carry the life of the scheduler.        *)
(***************************************************************************)
EXTENDS Integers, Sequences, FiniteSets, TLC

\* ------------------------------------------------------------------ bounds
NrCpus == 3          \* scx_bpf_nr_cpu_ids() of the modelled machine
NrTasks == 2         \* pids 1..NrTasks; the last one is a kernel thread
MaxWakeups == 2      \* select_cpu calls in one behaviour
MaxCommands == 2     \* CLI commands in one behaviour
CounterWrap == 8     \* the u64 statistics counters are kept modulo this

\* ------------------------------------------------------- program constants
PRIO_GAME_RENDER == 0
PRIO_GAME_OTHER == 1
PRIO_NORMAL == 2
PRIO_BACKGROUND == 3
NR_PRIO_LEVELS == 4
MAX_GAME_THREADS == 1024
MAX_CPUS == 256
DSQ_PRIO_BASE == 0

Cpus == 0 .. (NrCpus - 1)
Pids == 1 .. NrTasks
Levels == 0 .. (NR_PRIO_LEVELS - 1)
\* what the CLI can pass as a CPU: main() rejects cpu < 0 for pin, and
\* NrCpus stands for every id at or above scx_bpf_nr_cpu_ids()
CpuArgs == 0 .. NrCpus

\* the set S as the ascending list a --cpus argument names it by
RECURSIVE CpuList(_)
CpuList(S) ==
  IF S = {} THEN <<>>
  ELSE LET m == CHOOSE x \in S : \A y \in S : x <= y
       IN <<m>> \o CpuList(S \ {m})

\* what the CLI can pass as --cpus: a non-empty list of CPU ids
CpuListArgs == {CpuList(S) : S \in (SUBSET CpuArgs) \ {{}}}
PriorityArgs == {"render", "game", "normal"}

VARIABLES
  scx_state,               \* "Uninitialized" | "Running" | "Terminated"
  isolation_enabled,       \* const volatile bool, set before load
  game_threads,            \* hash map pid -> priority
  isolated_cpus,           \* array map cpu -> 0 | 1, as the set of the keys
                           \* below MAX_CPUS whose value is 1
  pinned_threads,          \* hash map pid -> cpu
  nr_game_dispatched,
  nr_normal_dispatched,
  nr_isolated_violations,
  dsq,                     \* the four priority DSQs: level -> sequence of pids
  local_dsq,               \* per CPU: the tasks handed to that CPU
  cpu_idle,                \* the host's idle mask
  runnable,                \* tasks select_cpu returned for without dispatching
  cpus_ptr,                \* p->cpus_ptr, the affinity mask of each task
  wakeups,                 \* number of select_cpu calls so far
  commands,                \* number of CLI commands so far
  arrival,                 \* per level: the queued tasks in the order of their enqueue calls
  enq_call,                \* per task: the gamesched_enqueue call in progress for it
  disp_call,               \* per CPU: the gamesched_dispatch call in progress on it
  nr_enqueue_calls,        \* number of gamesched_enqueue calls that have returned
  last                     \* what the most recent callback or command did

tables == <<game_threads, isolated_cpus, pinned_threads>>
counters == <<nr_game_dispatched, nr_normal_dispatched, nr_isolated_violations>>
inflight == <<enq_call, disp_call>>
host == <<dsq, local_dsq, cpu_idle, runnable, wakeups, arrival, inflight, nr_enqueue_calls>>
config == <<scx_state, isolation_enabled, cpus_ptr>>
vars == <<config, tables, counters, host, commands, last>>

\* ----------------------------------------------------------------- helpers
\* a value stored in one of the statistics counters
Wrap(n) == n % CounterWrap

\* the next value of the count of wake-ups or of enqueue calls; a
\* behaviour that starts with a negative count is not counted
Counted(n) == IF n < 0 THEN n ELSE n + 1

\* no callback in progress
NoCall == [pc |-> "idle", prio |-> 0, seen |-> 0]

\* p->flags & PF_KTHREAD: the highest pid is the kernel thread of the model
PF_KTHREAD(p) == p = NrTasks

\* bpf_map_update_elem(..., BPF_ANY) on a hash map of max_entries entries:
\* a new key is refused when the map is full
MapFull_never(m, key, max_entries) == FALSE

MapFull(m, key, max_entries) ==
  key \notin DOMAIN m /\ Cardinality(DOMAIN m) >= max_entries

\* BPF_NOEXIST instead of BPF_ANY: an existing entry is kept
MapUpdate_noexist(m, key, value) ==
  [k \in (DOMAIN m) \cup {key} |-> IF k \in DOMAIN m THEN m[k] ELSE value]

MapUpdate(m, key, value) ==
  [k \in (DOMAIN m) \cup {key} |-> IF k = key THEN value ELSE m[k]]

MapDelete(m, key) == [k \in (DOMAIN m) \ {key} |-> m[k]]

EmptyMap == [k \in {} |-> 0]

get_task_priority(p) ==
  IF p \in DOMAIN game_threads THEN game_threads[p] ELSE PRIO_NORMAL

is_cpu_isolated_ignoring_flag(cpu) ==
  IF cpu < 0 THEN FALSE ELSE cpu < MAX_CPUS /\ cpu \in isolated_cpus

is_cpu_isolated(cpu) ==
  IF ~isolation_enabled \/ cpu < 0
  THEN FALSE
  ELSE cpu < MAX_CPUS /\ cpu \in isolated_cpus

task_allowed_on_isolated(p) ==
  IF get_task_priority(p) = PRIO_GAME_RENDER \/ get_task_priority(p) = PRIO_GAME_OTHER
  THEN TRUE
  ELSE PF_KTHREAD(p)

get_pinned_cpu(p) ==
  IF p \in DOMAIN pinned_threads THEN pinned_threads[p] ELSE -1

\* scx_bpf_test_and_clear_cpu_idle(cpu): false for a CPU id the host does not have
TestCpuIdle(idle, cpu) == cpu \in Cpus /\ idle[cpu]

ClearCpuIdle(idle, cpu) ==
  IF cpu \in Cpus THEN [idle EXCEPT ![cpu] = FALSE] ELSE idle

\* scx_bpf_select_cpu_dfl(p, prev_cpu, wake_flags, &is_idle): prev_cpu if it
\* is idle, else an idle CPU of the task's mask, either one claimed
\* (is_idle = true); prev_cpu with is_idle = false when there is none
DflChoices(p, prev_cpu) ==
  IF cpu_idle[prev_cpu] THEN {<<prev_cpu, TRUE>>}
  ELSE IF \E c \in cpus_ptr[p] : cpu_idle[c]
       THEN {<<c, TRUE>> : c \in {x \in cpus_ptr[p] : cpu_idle[x]}}
       ELSE {<<prev_cpu, FALSE>>}

\* the bpf_for(i, 0, nr_cpus) scan of select_cpu, from i on: the first CPU
\* that is not isolated and in the task's mask, or -1
RECURSIVE ScanFrom_ignoring_affinity(_, _)
ScanFrom_ignoring_affinity(p, i) ==
  IF i >= NrCpus THEN -1
  ELSE IF ~is_cpu_isolated(i) THEN i
  ELSE ScanFrom_ignoring_affinity(p, i + 1)

RECURSIVE ScanFrom(_, _)
ScanFrom(p, i) ==
  IF i >= NrCpus THEN -1
  ELSE IF ~is_cpu_isolated(i) /\ i \in cpus_ptr[p] THEN i
  ELSE ScanFrom(p, i + 1)

\* sequence s without its first occurrence of p
RECURSIVE Without(_, _)
Without(s, p) ==
  IF s = <<>> THEN <<>>
  ELSE IF Head(s) = p THEN Tail(s)
  ELSE <<Head(s)>> \o Without(Tail(s), p)

Sleeping(p) ==
  /\ p \notin runnable
  /\ enq_call[p].pc = "idle"
  /\ \A l \in Levels : \A i \in 1 .. Len(dsq[l]) : dsq[l][i] # p
  /\ \A c \in Cpus : \A i \in 1 .. Len(local_dsq[c]) : local_dsq[c][i] # p

\* ------------------------------------------------------------- select_cpu
\* The outcome of one gamesched_select_cpu call: the CPU returned, the CPU the
\* task was dispatched to (-1: none), the idle mask after it, and whether the
\* isolation branch was taken.
\* the pinned path dispatching without the idle test
SelectPinned_always_direct(p, pinned_cpu) ==
  [ret |-> pinned_cpu,
   direct |-> pinned_cpu,
   idle |-> ClearCpuIdle(cpu_idle, pinned_cpu),
   redirect |-> FALSE, found |-> -1]

SelectPinned(p, pinned_cpu) ==
  [ret |-> pinned_cpu,
   direct |-> IF TestCpuIdle(cpu_idle, pinned_cpu) THEN pinned_cpu ELSE -1,
   idle |-> ClearCpuIdle(cpu_idle, pinned_cpu),
   redirect |-> FALSE, found |-> -1]

\* is_idle reset when the isolation branch is taken
SelectUnpinned_redirect_never_idle(p, dfl_cpu, dfl_idle) ==
  LET idle1 == IF dfl_idle THEN ClearCpuIdle(cpu_idle, dfl_cpu) ELSE cpu_idle
      redirect == isolation_enabled /\ is_cpu_isolated(dfl_cpu)
                    /\ ~task_allowed_on_isolated(p)
      found == IF redirect THEN ScanFrom(p, 0) ELSE -1
      cpu == IF found >= 0 THEN found ELSE dfl_cpu
      is_idle == IF redirect
                 THEN found >= 0 /\ TestCpuIdle(idle1, found)
                 ELSE dfl_idle
      idle2 == IF found >= 0 THEN ClearCpuIdle(idle1, found) ELSE idle1
  IN [ret |-> cpu,
      direct |-> IF is_idle THEN cpu ELSE -1,
      idle |-> idle2,
      redirect |-> redirect, found |-> found]

SelectUnpinned(p, dfl_cpu, dfl_idle) ==
  LET idle1 == IF dfl_idle THEN ClearCpuIdle(cpu_idle, dfl_cpu) ELSE cpu_idle
      redirect == isolation_enabled /\ is_cpu_isolated(dfl_cpu)
                    /\ ~task_allowed_on_isolated(p)
      found == IF redirect THEN ScanFrom(p, 0) ELSE -1
      cpu == IF found >= 0 THEN found ELSE dfl_cpu
      is_idle == IF found >= 0 THEN TestCpuIdle(idle1, found) ELSE dfl_idle
      idle2 == IF found >= 0 THEN ClearCpuIdle(idle1, found) ELSE idle1
  IN [ret |-> cpu,
      direct |-> IF is_idle THEN cpu ELSE -1,
      idle |-> idle2,
      redirect |-> redirect, found |-> found]

\* the pin honoured only where isolation admits the task
SelectCpu_isolation_before_pin(p, dfl_cpu, dfl_idle) ==
  IF get_pinned_cpu(p) >= 0
     /\ ~(is_cpu_isolated(get_pinned_cpu(p)) /\ ~task_allowed_on_isolated(p))
  THEN SelectPinned(p, get_pinned_cpu(p))
  ELSE SelectUnpinned(p, dfl_cpu, dfl_idle)

\* the counter bumped only when an alternate CPU was found
CountRedirect_only_when_found(redirect, found) == redirect /\ found >= 0

\* __sync_fetch_and_add(&nr_isolated_violations, 1) at the end of the
\* isolation branch, whatever the scan found
CountRedirect(redirect, found) == redirect

SelectCpu(p, dfl_cpu, dfl_idle) ==
  IF get_pinned_cpu(p) >= 0
  THEN SelectPinned(p, get_pinned_cpu(p))
  ELSE SelectUnpinned(p, dfl_cpu, dfl_idle)

\* the host aborts the scheduler when select_cpu returns a CPU it does not have
HostChecksCpu(cpu) == IF cpu \in Cpus THEN scx_state ELSE "Terminated"

gamesched_select_cpu(p, prev_cpu, dfl) ==
  LET r == SelectCpu(p, dfl[1], dfl[2]) IN
  /\ scx_state = "Running"
  /\ Sleeping(p)
  /\ wakeups < MaxWakeups
  /\ wakeups' = Counted(wakeups)
  /\ cpu_idle' = r.idle
  /\ nr_isolated_violations' =
       IF CountRedirect(r.redirect, r.found)
       THEN Wrap(nr_isolated_violations + 1)
       ELSE nr_isolated_violations
  /\ IF r.direct >= 0
     THEN /\ local_dsq' = [local_dsq EXCEPT ![r.direct] = Append(@, p)]
          /\ runnable' = runnable
     ELSE /\ local_dsq' = local_dsq
          /\ runnable' = runnable \cup {p}
  /\ last' = [op |-> "select_cpu", pid |-> p,
              pinned_cpu |-> get_pinned_cpu(p),
              dfl_cpu |-> IF get_pinned_cpu(p) >= 0 THEN -1 ELSE dfl[1],
              dfl_idle |-> IF get_pinned_cpu(p) >= 0 THEN FALSE ELSE dfl[2],
              ret |-> r.ret, direct |-> r.direct,
              redirect |-> r.redirect, found |-> r.found,
              violations_before |-> nr_isolated_violations]
  /\ scx_state' = HostChecksCpu(r.ret)
  /\ UNCHANGED <<isolation_enabled, cpus_ptr, tables, nr_game_dispatched,
                 nr_normal_dispatched, dsq, arrival, commands, inflight,
                 nr_enqueue_calls>>

\* ---------------------------------------------------------------- enqueue
DsqInsert_at_head(q, p) == <<p>> \o q

\* scx_bpf_dispatch(p, dsq_id, slice_ns, enq_flags) on a FIFO DSQ: to its tail
DsqInsert_twice(q, p) == Append(Append(q, p), p)

DsqInsert(q, p) == Append(q, p)

gamesched_enqueue(p) ==
  LET prio == get_task_priority(p) IN
  /\ scx_state = "Running"
  /\ p \in runnable
  /\ runnable' = runnable \ {p}
  /\ dsq' = [dsq EXCEPT ![DSQ_PRIO_BASE + prio] = DsqInsert(@, p)]
  /\ IF prio <= PRIO_GAME_OTHER
     THEN /\ nr_game_dispatched' = Wrap(nr_game_dispatched + 1)
          /\ nr_normal_dispatched' = nr_normal_dispatched
     ELSE /\ nr_normal_dispatched' = Wrap(nr_normal_dispatched + 1)
          /\ nr_game_dispatched' = nr_game_dispatched
  /\ arrival' = [arrival EXCEPT ![DSQ_PRIO_BASE + prio] = Append(@, p)]
  /\ nr_enqueue_calls' = Counted(nr_enqueue_calls)
  /\ last' = [op |-> "enqueue", pid |-> p, level |-> prio]
  /\ UNCHANGED <<config, tables, nr_isolated_violations, local_dsq, cpu_idle, wakeups,
                 commands, inflight>>

\* gamesched_enqueue statement by statement, for calls that run at the same
\* time on several CPUs.  prio is the local of the call; seen is the value the
\* counter of its class had when the call reached the increment.
\* u32 prio = get_task_priority(p)
enqueue_classify(p) ==
  /\ scx_state = "Running"
  /\ p \in runnable
  /\ enq_call[p].pc = "idle"
  /\ enq_call' = [enq_call EXCEPT ![p] =
                    [pc |-> "insert", prio |-> get_task_priority(p), seen |-> 0]]
  /\ UNCHANGED <<last, config, tables, counters, dsq, local_dsq, cpu_idle, runnable, wakeups,
                 arrival, disp_call, nr_enqueue_calls, commands>>

\* scx_bpf_dispatch(p, DSQ_PRIO_BASE + prio, slice_ns, enq_flags)
enqueue_insert(p) ==
  LET prio == enq_call[p].prio IN
  /\ scx_state = "Running"
  /\ enq_call[p].pc = "insert"
  /\ runnable' = runnable \ {p}
  /\ dsq' = [dsq EXCEPT ![DSQ_PRIO_BASE + prio] = DsqInsert(@, p)]
  /\ arrival' = [arrival EXCEPT ![DSQ_PRIO_BASE + prio] = Append(@, p)]
  /\ enq_call' = [enq_call EXCEPT ![p] =
                    [pc |-> "count", prio |-> prio,
                     seen |-> IF prio <= PRIO_GAME_OTHER
                              THEN nr_game_dispatched ELSE nr_normal_dispatched]]
  /\ UNCHANGED <<last, config, tables, counters, local_dsq, cpu_idle, wakeups, disp_call,
                 nr_enqueue_calls, commands>>

\* a load and a store that are two steps: the store writes seen + 1
FetchAndAdd_load_then_store(counter, seen) == Wrap(seen + 1)

\* __sync_fetch_and_add(&counter, 1)
FetchAndAdd(counter, seen) == Wrap(counter + 1)

\* the increment of the counter of the call's class, and the return
enqueue_count(p) ==
  LET prio == enq_call[p].prio IN
  /\ scx_state = "Running"
  /\ enq_call[p].pc = "count"
  /\ IF prio <= PRIO_GAME_OTHER
     THEN /\ nr_game_dispatched' = FetchAndAdd(nr_game_dispatched, enq_call[p].seen)
          /\ nr_normal_dispatched' = nr_normal_dispatched
     ELSE /\ nr_normal_dispatched' = FetchAndAdd(nr_normal_dispatched, enq_call[p].seen)
          /\ nr_game_dispatched' = nr_game_dispatched
  /\ enq_call' = [enq_call EXCEPT ![p] = NoCall]
  /\ nr_enqueue_calls' = Counted(nr_enqueue_calls)
  /\ last' = [op |-> "enqueue", pid |-> p, level |-> prio]
  /\ UNCHANGED <<config, tables, nr_isolated_violations, dsq, local_dsq, cpu_idle,
                 runnable, wakeups, arrival, disp_call, commands>>

\* --------------------------------------------------------------- dispatch
\* the bpf_for(prio, 0, NR_PRIO_LEVELS) loop, from prio on: the first level
\* whose scx_bpf_consume() succeeds, or NR_PRIO_LEVELS.  The host calls
\* dispatch on a CPU whose local DSQ is empty; the CPU enters idle when the
\* call hands it nothing.
RECURSIVE ConsumeFrom_descending(_, _)
ConsumeFrom_descending(q, prio) ==
  IF prio >= NR_PRIO_LEVELS THEN NR_PRIO_LEVELS
  ELSE IF q[DSQ_PRIO_BASE + (NR_PRIO_LEVELS - 1 - prio)] # <<>>
       THEN NR_PRIO_LEVELS - 1 - prio
  ELSE ConsumeFrom_descending(q, prio + 1)

RECURSIVE ConsumeFrom(_, _)
ConsumeFrom(q, prio) ==
  IF prio >= NR_PRIO_LEVELS THEN NR_PRIO_LEVELS
  ELSE IF q[DSQ_PRIO_BASE + prio] # <<>> THEN prio
  ELSE ConsumeFrom(q, prio + 1)

\* scx_bpf_consume(dsq_id): the task at the head of the DSQ
DsqFirst(q) == Head(q)

DsqRemoveFirst_leaving_head(q) == q

\* ... which the consume takes out of the DSQ under the DSQ's lock
DsqRemoveFirst(q) == Tail(q)

gamesched_dispatch(cpu) ==
  LET lvl == ConsumeFrom(dsq, 0) IN
  /\ scx_state = "Running"
  /\ local_dsq[cpu] = <<>>
  /\ IF lvl < NR_PRIO_LEVELS
     THEN /\ dsq' = [dsq EXCEPT ![DSQ_PRIO_BASE + lvl] = DsqRemoveFirst(@)]
          /\ local_dsq' = [local_dsq EXCEPT ![cpu] = Append(@, DsqFirst(dsq[DSQ_PRIO_BASE + lvl]))]
          /\ cpu_idle' = [cpu_idle EXCEPT ![cpu] = FALSE]
          /\ arrival' = [arrival EXCEPT ![DSQ_PRIO_BASE + lvl] =
                           Without(@, DsqFirst(dsq[DSQ_PRIO_BASE + lvl]))]
          /\ last' = [op |-> "dispatch", cpu |-> cpu, level |-> lvl,
                      pid |-> DsqFirst(dsq[DSQ_PRIO_BASE + lvl]),
                      oldest |-> Head(arrival[DSQ_PRIO_BASE + lvl])]
     ELSE /\ UNCHANGED <<dsq, local_dsq, arrival>>
          /\ cpu_idle' = [cpu_idle EXCEPT ![cpu] = TRUE]
          /\ last' = [op |-> "dispatch", cpu |-> cpu, level |-> lvl,
                      pid |-> 0, oldest |-> 0]
  /\ UNCHANGED <<config, tables, counters, runnable, wakeups, commands, inflight,
                 nr_enqueue_calls>>

\* gamesched_dispatch probe by probe, for calls that run at the same time on
\* several CPUs.  prio is the loop variable of the call; the host starts a
\* call on a CPU whose local DSQ is empty.
\* one scx_bpf_consume(DSQ_PRIO_BASE + prio): return if it hands a task
\* over, else the next level, and return after the last one
dispatch_probe(cpu) ==
  LET prio == IF disp_call[cpu].pc = "probe" THEN disp_call[cpu].prio ELSE 0 IN
  /\ scx_state = "Running"
  /\ disp_call[cpu].pc = "probe" \/ local_dsq[cpu] = <<>>
  /\ IF dsq[DSQ_PRIO_BASE + prio] # <<>>
     THEN /\ dsq' = [dsq EXCEPT ![DSQ_PRIO_BASE + prio] = DsqRemoveFirst(@)]
          /\ local_dsq' = [local_dsq EXCEPT ![cpu] =
                             Append(@, DsqFirst(dsq[DSQ_PRIO_BASE + prio]))]
          /\ cpu_idle' = [cpu_idle EXCEPT ![cpu] = FALSE]
          /\ arrival' = [arrival EXCEPT ![DSQ_PRIO_BASE + prio] =
                           Without(@, DsqFirst(dsq[DSQ_PRIO_BASE + prio]))]
          /\ disp_call' = [disp_call EXCEPT ![cpu] = NoCall]
          /\ last' = [op |-> "dispatch", cpu |-> cpu, level |-> prio,
                      pid |-> DsqFirst(dsq[DSQ_PRIO_BASE + prio]),
                      oldest |-> Head(arrival[DSQ_PRIO_BASE + prio])]
     ELSE IF prio + 1 < NR_PRIO_LEVELS
     THEN /\ disp_call' = [disp_call EXCEPT ![cpu] =
                             [pc |-> "probe", prio |-> prio + 1, seen |-> 0]]
          /\ UNCHANGED <<dsq, local_dsq, cpu_idle, arrival, last>>
     ELSE /\ disp_call' = [disp_call EXCEPT ![cpu] = NoCall]
          /\ cpu_idle' = [cpu_idle EXCEPT ![cpu] = TRUE]
          /\ last' = [op |-> "dispatch", cpu |-> cpu, level |-> NR_PRIO_LEVELS,
                      pid |-> 0, oldest |-> 0]
          /\ UNCHANGED <<dsq, local_dsq, arrival>>
  /\ UNCHANGED <<config, tables, counters, runnable, wakeups, enq_call,
                 nr_enqueue_calls, commands>>

\* ------------------------------------------------------------------- host
\* the task running on cpu blocks
TaskStops(cpu) ==
  /\ scx_state = "Running"
  /\ local_dsq[cpu] # <<>>
  /\ local_dsq' = [local_dsq EXCEPT ![cpu] = Tail(@)]
  /\ last' = [op |-> "stop", cpu |-> cpu]
  /\ UNCHANGED <<config, tables, counters, dsq, cpu_idle, runnable, wakeups, arrival,
                 commands, inflight, nr_enqueue_calls>>

\* -------------------------------------------------------------- lifecycle
\* what a failing scx_bpf_create_dsq() returns (-ENOMEM, -EEXIST)
CreateErrors == {-12, -17}

\* gamesched_init: DSQ_PRIO_BASE + i is created for i = 0, 1, ... until a
\* creation fails; fail is the first level whose creation fails, or
\* NR_PRIO_LEVELS when none does
CreatedDsqs(fail) == [l \in {i \in Levels : i < fail} |-> <<>>]

InitReturn_ignoring_failure(fail, err) == 0

InitReturn(fail, err) == IF fail < NR_PRIO_LEVELS THEN err ELSE 0

\* the host enables the scheduler when ops.init returns 0 and aborts the
\* load otherwise
HostEnables(ret) == IF ret = 0 THEN "Running" ELSE "Terminated"

\* run_scheduler up to SCX_OPS_ATTACH, which makes the host call ops.init
gamesched_init(fail, err) ==
  /\ scx_state = "Uninitialized"
  /\ dsq' = CreatedDsqs(fail)
  /\ scx_state' = HostEnables(InitReturn(fail, err))
  /\ last' = [op |-> "gamesched_init", created |-> DOMAIN CreatedDsqs(fail),
              ret |-> InitReturn(fail, err)]
  /\ UNCHANGED <<isolation_enabled, cpus_ptr, tables, counters, local_dsq,
                 cpu_idle, runnable, wakeups, arrival, inflight,
                 nr_enqueue_calls, commands>>

\* why the scheduler is detached: run_scheduler leaves its loop on a signal
\* and destroys the link, or the host has ended the scheduler itself
ExitKinds == {"unregistered", "error"}

\* ops.exit: the exit info is recorded for the loader to report
gamesched_exit(kind) ==
  /\ scx_state = "Running"
  /\ scx_state' = "Terminated"
  /\ last' = [op |-> "gamesched_exit", kind |-> kind]
  /\ UNCHANGED <<isolation_enabled, cpus_ptr, tables, counters, host, commands>>

\* -------------------------------------------------------------------- CLI
\* every name of the enum accepted
PriorityOf_accepting_every_level(priority) ==
  IF priority = "render" THEN PRIO_GAME_RENDER
  ELSE IF priority = "game" THEN PRIO_GAME_OTHER
  ELSE IF priority = "normal" THEN PRIO_NORMAL
  ELSE IF priority = "background" THEN PRIO_BACKGROUND
  ELSE -1

PriorityOf(priority) ==
  IF priority = "render" THEN PRIO_GAME_RENDER
  ELSE IF priority = "game" THEN PRIO_GAME_OTHER
  ELSE -1

cmd_add(pid, priority) ==
  LET prio == PriorityOf(priority)
      ok == prio >= 0 /\ ~MapFull(game_threads, pid, MAX_GAME_THREADS)
  IN
  /\ scx_state = "Running"
  /\ commands < MaxCommands
  /\ commands' = commands + 1
  /\ game_threads' = IF ok THEN MapUpdate(game_threads, pid, prio) ELSE game_threads
  /\ last' = [op |-> "cmd_add", pid |-> pid, priority |-> priority,
              ret |-> IF ok THEN 0 ELSE -1]
  /\ UNCHANGED <<config, isolated_cpus, pinned_threads, counters, host>>

\* the delete of the pin forgotten
cmd_remove_priority_only(pid) ==
  /\ scx_state = "Running"
  /\ commands < MaxCommands
  /\ commands' = commands + 1
  /\ game_threads' = MapDelete(game_threads, pid)
  /\ last' = [op |-> "cmd_remove", pid |-> pid, ret |-> 0,
              registered |-> pid \in DOMAIN game_threads,
              pinned |-> pid \in DOMAIN pinned_threads]
  /\ UNCHANGED <<config, isolated_cpus, pinned_threads, counters, host>>

cmd_remove(pid) ==
  /\ scx_state = "Running"
  /\ commands < MaxCommands
  /\ commands' = commands + 1
  /\ game_threads' = MapDelete(game_threads, pid)
  /\ pinned_threads' = MapDelete(pinned_threads, pid)
  /\ last' = [op |-> "cmd_remove", pid |-> pid, ret |-> 0,
              registered |-> pid \in DOMAIN game_threads,
              pinned |-> pid \in DOMAIN pinned_threads]
  /\ UNCHANGED <<config, isolated_cpus, counters, host>>

cmd_pin(pid, cpu) ==
  LET ok == ~MapFull(pinned_threads, pid, MAX_GAME_THREADS) IN
  /\ scx_state = "Running"
  /\ commands < MaxCommands
  /\ commands' = commands + 1
  /\ pinned_threads' = IF ok THEN MapUpdate(pinned_threads, pid, cpu) ELSE pinned_threads
  /\ last' = [op |-> "cmd_pin", pid |-> pid, cpu |-> cpu, ret |-> IF ok THEN 0 ELSE -1]
  /\ UNCHANGED <<config, game_threads, isolated_cpus, counters, host>>

\* the update loop of cmd_isolate over cpus[i..]: every listed CPU is marked,
\* up to the first key the array map refuses
RECURSIVE IsolateFrom(_, _, _)
IsolateFrom(set, cpus, i) ==
  IF i > Len(cpus) THEN [set |-> set, ret |-> 0]
  ELSE IF cpus[i] < 0 \/ cpus[i] >= MAX_CPUS THEN [set |-> set, ret |-> -1]
  ELSE IsolateFrom(set \cup {cpus[i]}, cpus, i + 1)

\* isolate --cpus <list>
cmd_isolate(cpus) ==
  LET r == IsolateFrom(isolated_cpus, cpus, 1) IN
  /\ scx_state = "Running"
  /\ commands < MaxCommands
  /\ commands' = commands + 1
  /\ isolated_cpus' = r.set
  /\ last' = [op |-> "cmd_isolate", cpus |-> cpus, ret |-> r.ret]
  /\ UNCHANGED <<config, game_threads, pinned_threads, counters, host>>

\* isolate --clear: every entry of the array is set to 0
cmd_isolate_clear ==
  /\ scx_state = "Running"
  /\ commands < MaxCommands
  /\ commands' = commands + 1
  /\ isolated_cpus' = {}
  /\ last' = [op |-> "cmd_isolate_clear", ret |-> 0]
  /\ UNCHANGED <<config, game_threads, pinned_threads, counters, host>>

\* ---------------------------------------------------------- specifications
AffinityMasks == (SUBSET Cpus) \ {{}}

InitTables ==
  /\ game_threads = EmptyMap
  /\ pinned_threads = EmptyMap
  /\ isolated_cpus = {}

InitCounters ==
  /\ nr_game_dispatched = 0
  /\ nr_normal_dispatched = 0
  /\ nr_isolated_violations = 0

InitHost ==
  /\ dsq = [l \in Levels |-> <<>>]
  /\ local_dsq = [c \in Cpus |-> <<>>]
  /\ runnable = {}
  /\ wakeups = 0
  /\ commands = 0
  /\ arrival = [l \in Levels |-> <<>>]
  /\ enq_call = [p \in Pids |-> NoCall]
  /\ disp_call = [c \in Cpus |-> NoCall]
  /\ nr_enqueue_calls = 0
  /\ last = [op |-> "init"]

\* the scheduler attached, every CPU idle
InitRunning ==
  /\ scx_state = "Running"
  /\ InitTables /\ InitCounters /\ InitHost
  /\ cpu_idle = [c \in Cpus |-> TRUE]

\* what the default pick can answer for a task that wakes up on some
\* previous CPU of its mask, and a previous CPU it answers d for
DflOutcomes(p) == UNION {DflChoices(p, prev) : prev \in cpus_ptr[p]}

PrevFor(p, d) == CHOOSE prev \in cpus_ptr[p] : d \in DflChoices(p, prev)

WakeUp ==
  \E p \in Pids : \E d \in DflOutcomes(p) :
    gamesched_select_cpu(p, PrevFor(p, d), d)

Enqueue == \E p \in Pids : gamesched_enqueue(p)

Dispatch == \E c \in Cpus : gamesched_dispatch(c)

Stop == \E c \in Cpus : TaskStops(c)

Add == \E p \in Pids, pr \in PriorityArgs : cmd_add(p, pr)

Remove == \E p \in Pids : cmd_remove(p)

Pin == \E p \in Pids, c \in CpuArgs : cmd_pin(p, c)

Isolate == \E cpus \in CpuListArgs : cmd_isolate(cpus)

\* the whole system: every callback and every command, any configuration
Init ==
  /\ isolation_enabled \in BOOLEAN
  /\ cpus_ptr \in [Pids -> AffinityMasks]
  /\ InitRunning

Next ==
  \/ WakeUp \/ Enqueue \/ Dispatch \/ Stop
  \/ Add \/ Remove \/ Pin \/ Isolate \/ cmd_isolate_clear

Spec == Init /\ [][Next]_vars

\* the dispatch queues: isolation off, no pins, registered and unregistered
\* tasks wake up, queue and are consumed.  A CPU that is not idle
\* at the start has been running a task that is about to leave it.
InitQueue ==
  /\ isolation_enabled = FALSE
  /\ cpus_ptr = [p \in Pids |-> Cpus]
  /\ scx_state = "Running"
  /\ InitTables /\ InitCounters /\ InitHost
  /\ cpu_idle \in [Cpus -> BOOLEAN]

\* tasks are registered before the first wake-up
Register == wakeups = 0 /\ Add

NextQueue == Register \/ WakeUp \/ Enqueue \/ Dispatch

SpecQueue == InitQueue /\ [][NextQueue]_vars

\* the registry: tasks are registered and unregistered while they wake up
\* and queue
NextRegistry == Add \/ Remove \/ WakeUp \/ Enqueue

SpecRegistry == InitQueue /\ [][NextRegistry]_vars

\* CPU selection under isolation: CPUs are isolated and tasks registered,
\* then unpinned tasks wake up; the affinity mask of task 1 is free
InitIsolation ==
  /\ isolation_enabled = TRUE
  /\ \E m \in AffinityMasks : cpus_ptr = [p \in Pids |-> IF p = 1 THEN m ELSE Cpus]
  /\ InitRunning

Prepare == wakeups = 0 /\ (Add \/ Isolate)

NextIsolation == Prepare \/ WakeUp

SpecIsolation == InitIsolation /\ [][NextIsolation]_vars

\* any setting of isolation_enabled, every task free to run on every CPU
InitPlacement ==
  /\ isolation_enabled \in BOOLEAN
  /\ cpus_ptr = [p \in Pids |-> Cpus]
  /\ InitRunning

\* placement: tasks are pinned and registered and CPUs isolated before the
\* first wake-up; then tasks wake up, queue, run and block
Configure == wakeups = 0 /\ (Pin \/ Add \/ Isolate)

NextPlacement == Configure \/ WakeUp \/ Enqueue \/ Dispatch \/ Stop

SpecPlacement == InitPlacement /\ [][NextPlacement]_vars

\* CPU selection: tasks are pinned and registered and CPUs isolated, with
\* isolation on or off; then tasks wake up
NextSelect == Configure \/ WakeUp

SpecSelect == InitPlacement /\ [][NextSelect]_vars

\* isolation disabled: the isolation set is written and cleared while tasks
\* wake up
InitDisabled ==
  /\ isolation_enabled = FALSE
  /\ cpus_ptr = [p \in Pids |-> Cpus]
  /\ InitRunning

NextDisabled == WakeUp \/ Isolate \/ cmd_isolate_clear \/ Add

SpecDisabled == InitDisabled /\ [][NextDisabled]_vars

\* the life of the scheduler: it is loaded, tasks wake up, queue
\* and are consumed, and it is unloaded or aborted.  At the load every CPU is
\* running a task that is about to leave it.
InitLifecycle ==
  /\ isolation_enabled = FALSE
  /\ cpus_ptr = [p \in Pids |-> Cpus]
  /\ scx_state = "Uninitialized"
  /\ InitTables /\ InitCounters
  /\ dsq = CreatedDsqs(0)
  /\ local_dsq = [c \in Cpus |-> <<>>]
  /\ runnable = {}
  /\ wakeups = 0
  /\ commands = 0
  /\ arrival = [l \in Levels |-> <<>>]
  /\ enq_call = [p \in Pids |-> NoCall]
  /\ disp_call = [c \in Cpus |-> NoCall]
  /\ nr_enqueue_calls = 0
  /\ last = [op |-> "init"]
  /\ cpu_idle = [c \in Cpus |-> FALSE]

Load ==
  \E fail \in Levels \cup {NR_PRIO_LEVELS}, err \in CreateErrors :
    gamesched_init(fail, err)

Unload == \E kind \in ExitKinds : gamesched_exit(kind)

NextLifecycle == Load \/ WakeUp \/ Enqueue \/ Dispatch \/ Unload

SpecLifecycle == InitLifecycle /\ [][NextLifecycle]_vars

\* both hash maps one entry short of max_entries: n other threads, with pids
\* above those of the modelled tasks, are registered and pinned
Crowd(n) == (NrTasks + 1) .. (NrTasks + n)

InitCrowded ==
  /\ isolation_enabled = FALSE
  /\ cpus_ptr = [p \in Pids |-> Cpus]
  /\ scx_state = "Running"
  /\ game_threads = [k \in Crowd(MAX_GAME_THREADS - 1) |-> PRIO_GAME_OTHER]
  /\ pinned_threads = [k \in Crowd(MAX_GAME_THREADS - 1) |-> 0]
  /\ isolated_cpus = {}
  /\ InitCounters /\ InitHost
  /\ cpu_idle = [c \in Cpus |-> TRUE]

NextCrowded == Add \/ Pin \/ Remove

SpecCrowded == InitCrowded /\ [][NextCrowded]_vars

\* the two paths of a wake-up: tasks are pinned and registered and CPUs
\* isolated; then tasks wake up and those not dispatched by select_cpu are
\* enqueued
NextWaking == Configure \/ WakeUp \/ Enqueue

SpecWaking == InitPlacement /\ [][NextWaking]_vars

\* the game_threads tables that add commands can have built
Registries ==
  UNION {[D -> {PRIO_GAME_RENDER, PRIO_GAME_OTHER}] : D \in SUBSET Pids}

\* the pinned_threads tables that pin commands naming the last CPU can have built
Pinnings == UNION {[D -> {NrCpus - 1}] : D \in SUBSET Pids}

\* isolation on with CPU 0 isolated; some tasks registered, some pinned
InitSettled ==
  /\ isolation_enabled = TRUE
  /\ cpus_ptr = [p \in Pids |-> Cpus]
  /\ scx_state = "Running"
  /\ game_threads \in Registries
  /\ pinned_threads \in Pinnings
  /\ isolated_cpus = {0}
  /\ InitCounters /\ InitHost
  /\ cpu_idle = [c \in Cpus |-> TRUE]

\* tasks are unregistered while they wake up and queue
NextUnregister == Remove \/ WakeUp \/ Enqueue

SpecUnregister == InitSettled /\ [][NextUnregister]_vars

\* enqueue calls that overlap: the statements of the calls for different
\* tasks interleave with each other and with registrations
EnqueueStep ==
  \E p \in Pids : enqueue_classify(p) \/ enqueue_insert(p) \/ enqueue_count(p)

NextEnqueueing == Add \/ WakeUp \/ EnqueueStep

SpecEnqueueing == InitQueue /\ [][NextEnqueueing]_vars

\* dispatch calls that overlap: the probes of the calls on different CPUs
\* interleave with each other and with enqueue calls; the calls start while
\* a task is queued
DispatchStep ==
  \E c \in Cpus :
    /\ disp_call[c].pc = "probe" \/ \E l \in Levels : dsq[l] # <<>>
    /\ dispatch_probe(c)

\* tasks wake up before the first dispatch call
Arrive ==
  /\ \A c \in Cpus : disp_call[c].pc = "idle" /\ local_dsq[c] = <<>>
  /\ WakeUp

NextDispatching == Arrive \/ Enqueue \/ DispatchStep

\* some tasks have been registered, and every CPU has been running a task
\* that is about to leave it
InitBusy ==
  /\ isolation_enabled = FALSE
  /\ cpus_ptr = [p \in Pids |-> Cpus]
  /\ scx_state = "Running"
  /\ game_threads \in Registries
  /\ pinned_threads = EmptyMap
  /\ isolated_cpus = {}
  /\ InitCounters /\ InitHost
  /\ cpu_idle = [c \in Cpus |-> FALSE]

SpecDispatching == InitBusy /\ [][NextDispatching]_vars

\* tasks are registered, re-registered and unregistered at any moment while
\* they wake up, queue, run and block; the CPUs, busy at the start, ask for
\* work while a task is queued
DispatchQueued ==
  /\ \E l \in Levels : dsq[DSQ_PRIO_BASE + l] # <<>>
  /\ Dispatch

NextRequeue == Add \/ Remove \/ WakeUp \/ Enqueue \/ DispatchQueued \/ Stop

InitRequeue ==
  /\ isolation_enabled = FALSE
  /\ cpus_ptr = [p \in Pids |-> Cpus]
  /\ scx_state = "Running"
  /\ InitTables /\ InitCounters /\ InitHost
  /\ cpu_idle = [c \in Cpus |-> FALSE]

SpecRequeue == InitRequeue /\ [][NextRequeue]_vars

\* the levels in use: add is given every priority word, the names of the
\* four levels among them, while tasks wake up, queue, run and block
PriorityWords == PriorityArgs \cup {"background"}

AddAnyPriority == \E p \in Pids, pr \in PriorityWords : cmd_add(p, pr)

NextLevels ==
  AddAnyPriority \/ Remove \/ WakeUp \/ Enqueue \/ DispatchQueued \/ Stop

SpecLevels == InitRequeue /\ [][NextLevels]_vars

\* a render backlog: every task but the last is registered as render and
\* keeps waking up, being queued, run and blocked; the last task is
\* unregistered.  Every CPU is busy when a task wakes up, and the CPUs ask
\* for work while a render task is queued.  The wake-ups and enqueue calls
\* are not counted.
InitStarving ==
  /\ isolation_enabled = FALSE
  /\ cpus_ptr = [p \in Pids |-> Cpus]
  /\ scx_state = "Running"
  /\ game_threads = [p \in Pids \ {NrTasks} |-> PRIO_GAME_RENDER]
  /\ pinned_threads = EmptyMap
  /\ isolated_cpus = {}
  /\ InitCounters
  /\ dsq = [l \in Levels |-> <<>>]
  /\ local_dsq = [c \in Cpus |-> <<>>]
  /\ runnable = {}
  /\ wakeups = -1
  /\ commands = 0
  /\ arrival = [l \in Levels |-> <<>>]
  /\ enq_call = [p \in Pids |-> NoCall]
  /\ disp_call = [c \in Cpus |-> NoCall]
  /\ nr_enqueue_calls = -1
  /\ last = [op |-> "init"]
  /\ cpu_idle = [c \in Cpus |-> FALSE]

WakeUpOf(p) ==
  \E d \in DflOutcomes(p) : gamesched_select_cpu(p, PrevFor(p, d), d)

DispatchBacklogged(c) ==
  /\ dsq[DSQ_PRIO_BASE + PRIO_GAME_RENDER] # <<>>
  /\ gamesched_dispatch(c)

NextStarving ==
  \/ \E p \in Pids : WakeUpOf(p)
  \/ \E p \in Pids : gamesched_enqueue(p)
  \/ \E c \in Cpus : DispatchBacklogged(c)
  \/ \E c \in Cpus : TaskStops(c)

\* no task and no CPU is held back for ever: a task that can wake up or be
\* enqueued is, a running task blocks, and a CPU that finds the render
\* backlog again and again is served
FairStarving ==
  /\ \A p \in Pids : WF_vars(WakeUpOf(p)) /\ WF_vars(gamesched_enqueue(p))
  /\ \A c \in Cpus : WF_vars(TaskStops(c)) /\ SF_vars(DispatchBacklogged(c))

SpecStarving == InitStarving /\ [][NextStarving]_vars /\ FairStarving

\* ------------------------------------------------------------------ claims
NonEmptyLevels == {l \in Levels : dsq[l] # <<>>}

LowestLevel(S) == CHOOSE l \in S : \A k \in S : l <= k

\* C1: a dispatch call on a CPU hands out the head task of the
\* lowest-numbered non-empty level and removes it from that level only; when
\* all four levels are empty it hands out nothing and changes no queue.
C1_ConsumeLowestLevel ==
  [][last'.op = "dispatch" =>
       IF NonEmptyLevels = {}
       THEN last'.pid = 0 /\ dsq' = dsq /\ local_dsq' = local_dsq
       ELSE /\ last'.level = LowestLevel(NonEmptyLevels)
            /\ last'.pid = Head(dsq[LowestLevel(NonEmptyLevels)])
            /\ dsq' = [dsq EXCEPT ![LowestLevel(NonEmptyLevels)] = Tail(@)]
            /\ local_dsq' = [local_dsq EXCEPT ![last'.cpu] =
                               <<Head(dsq[LowestLevel(NonEmptyLevels)])>>]]_vars

\* a RENDER task was just consumed while a NORMAL task was queued too
C1_Witness ==
  /\ last.op = "dispatch"
  /\ last.level = PRIO_GAME_RENDER
  /\ last.pid # 0
  /\ dsq[PRIO_NORMAL] # <<>>

\* C2: within one level the task consumed is always the one whose enqueue
\* call came first among the tasks queued at that level, and every level
\* holds its tasks in the order of their enqueue calls.
C2_FifoWithinLevel ==
  /\ (last.op = "dispatch" /\ last.pid # 0) => last.pid = last.oldest
  /\ \A l \in Levels : dsq[l] = arrival[l]

\* a task was just consumed from a level at which a later one is still queued
C2_Witness ==
  /\ last.op = "dispatch"
  /\ last.pid # 0
  /\ dsq[last.level] # <<>>

\* C6: classify(t) is the class of the latest successful registration of t,
\* NORMAL before any registration and after an unregistration; no other step
\* changes it, and registering a registered task leaves the number of
\* entries unchanged.
C6_ClassifyLatestRegistration ==
  /\ \A t \in Pids : get_task_priority(t) = PRIO_NORMAL
  /\ [][\A t \in Pids :
          IF last'.op = "cmd_add" /\ last'.pid = t /\ last'.ret = 0
          THEN /\ last'.priority = "render" => get_task_priority(t)' = PRIO_GAME_RENDER
               /\ last'.priority = "game" => get_task_priority(t)' = PRIO_GAME_OTHER
               /\ last'.priority \in {"render", "game"}
               /\ t \in DOMAIN game_threads =>
                    Cardinality(DOMAIN game_threads') = Cardinality(DOMAIN game_threads)
          ELSE IF last'.op = "cmd_remove" /\ last'.pid = t
          THEN get_task_priority(t)' = PRIO_NORMAL
          ELSE get_task_priority(t)' = get_task_priority(t)]_vars

\* a task queued as RENDER has just been registered again, as GAME_OTHER
C6_Witness ==
  /\ last.op = "cmd_add"
  /\ last.ret = 0
  /\ last.priority = "game"
  /\ \E i \in 1 .. Len(dsq[PRIO_GAME_RENDER]) : dsq[PRIO_GAME_RENDER][i] = last.pid
  /\ get_task_priority(last.pid) = PRIO_GAME_OTHER
  /\ Cardinality(DOMAIN game_threads) = 1

\* the task of the latest select_cpu or dispatch call (0: none)
LastPid == IF last.op \in {"select_cpu", "dispatch"} THEN last.pid ELSE 0

\* that task has a pin-table entry >= 0
LastPinned ==
  LastPid \in DOMAIN pinned_threads /\ pinned_threads[LastPid] >= 0

\* that task is registered RENDER or GAME_OTHER or is a kernel thread
LastAllowed ==
  \/ (LastPid \in DOMAIN game_threads
      /\ game_threads[LastPid] \in {PRIO_GAME_RENDER, PRIO_GAME_OTHER})
  \/ PF_KTHREAD(LastPid)

\* the latest callback was a select_cpu call that is a redirect event
RedirectEvent ==
  /\ last.op = "select_cpu"
  /\ isolation_enabled
  /\ ~LastPinned
  /\ last.dfl_cpu \in isolated_cpus
  /\ ~LastAllowed

\* the CPUs of the domain that are not isolated and in the mask of the task
Alternates ==
  {c \in Cpus : ~(isolation_enabled /\ c \in isolated_cpus) /\ c \in cpus_ptr[last.pid]}

\* C3: with isolation enabled and a non-isolated CPU in every task's mask, a
\* task handed to an isolated CPU, by the eager dispatch of select_cpu or by
\* a dispatch call on that CPU, is registered RENDER or GAME_OTHER, a kernel
\* thread, or pinned to that CPU.
C3_IsolatedCpuRunsOnlyAllowed ==
  (isolation_enabled
   /\ \A p \in Pids : \E c \in cpus_ptr[p] : c \notin isolated_cpus)
  =>
  /\ (last.op = "dispatch" /\ last.pid # 0 /\ last.cpu \in isolated_cpus)
       => (LastAllowed \/ (LastPinned /\ pinned_threads[last.pid] = last.cpu))
  /\ (last.op = "select_cpu" /\ last.direct >= 0 /\ last.direct \in isolated_cpus)
       => (LastAllowed \/ (LastPinned /\ pinned_threads[last.pid] = last.direct))

\* C4: select_cpu returns the pinned CPU of a task with a pin-table entry
\* >= 0, dispatches to that CPU or not at all, and leaves the redirect
\* counter alone.
C4_PinnedSelectsPinnedCpu ==
  (last.op = "select_cpu" /\ LastPinned) =>
    /\ last.ret = pinned_threads[last.pid]
    /\ last.direct \in {-1, pinned_threads[last.pid]}
    /\ nr_isolated_violations = last.violations_before

\* an unregistered user task pinned to an isolated CPU was returned that CPU
C4_Witness ==
  /\ last.op = "select_cpu"
  /\ LastPinned
  /\ isolation_enabled
  /\ pinned_threads[last.pid] \in isolated_cpus
  /\ ~LastAllowed
  /\ last.ret = pinned_threads[last.pid]
  /\ last.ret # last.dfl_cpu

\* C5: a task pinned to a CPU of the machine is handed only to that CPU, by
\* the eager dispatch of select_cpu and by dispatch calls alike.
C5_PinnedRunsOnlyOnPinnedCpu ==
  (LastPinned /\ pinned_threads[last.pid] \in Cpus) =>
    /\ (last.op = "dispatch" /\ last.pid # 0)
         => last.cpu = pinned_threads[last.pid]
    /\ (last.op = "select_cpu" /\ last.direct >= 0)
         => last.direct = pinned_threads[last.pid]

C8_RedirectToLowestAlternate ==
  (RedirectEvent /\ Alternates # {}) =>
    /\ last.ret \in Alternates
    /\ \A c \in Alternates : last.ret <= c

\* a redirect that skipped CPU 0 and dispatched to a higher idle CPU
C8_Witness ==
  /\ RedirectEvent
  /\ Alternates # {}
  /\ last.ret > 0
  /\ last.direct = last.ret

C10_DisabledIgnoresIsolationSet ==
  ~isolation_enabled =>
    /\ \A u \in -1 .. MAX_CPUS : ~is_cpu_isolated(u)
    /\ (last.op = "select_cpu" /\ ~LastPinned) =>
         /\ last.ret = last.dfl_cpu
         /\ last.direct = (IF last.dfl_idle THEN last.dfl_cpu ELSE -1)
         /\ nr_isolated_violations = last.violations_before

\* an unregistered user task was returned a candidate the isolation set marks
C10_Witness ==
  /\ ~isolation_enabled
  /\ last.op = "select_cpu"
  /\ ~LastPinned
  /\ ~LastAllowed
  /\ last.dfl_cpu \in isolated_cpus
  /\ last.ret = last.dfl_cpu

\* the counter an enqueue call of class prio increments
CounterOf(prio) ==
  IF prio <= PRIO_GAME_OTHER THEN nr_game_dispatched ELSE nr_normal_dispatched

\* C11: an enqueue call queues the task at the level of the class its lookup
\* returned and, when it returns, has added exactly 1 to exactly one counter:
\* the game counter for RENDER and GAME_OTHER, the normal counter otherwise.
\* No step lowers a counter, and with enqueue calls for different tasks
\* overlapping statement by statement the two counters always add up to the
\* number of enqueue calls that have returned.
C11_EnqueueCountsOnce ==
  /\ [](nr_game_dispatched + nr_normal_dispatched = nr_enqueue_calls)
  /\ [][/\ nr_game_dispatched' >= nr_game_dispatched
        /\ nr_normal_dispatched' >= nr_normal_dispatched
        /\ \A p \in Pids :
             /\ (enq_call[p].pc = "idle" /\ enq_call'[p].pc = "insert")
                  => enq_call'[p].prio = get_task_priority(p)
             /\ (enq_call[p].pc = "insert" /\ enq_call'[p].pc = "count")
                  => /\ enq_call'[p].prio = enq_call[p].prio
                     /\ dsq' = [dsq EXCEPT ![enq_call[p].prio] = Append(@, p)]
                     /\ UNCHANGED counters
             /\ (enq_call[p].pc = "count" /\ enq_call'[p].pc = "idle")
                  => /\ nr_enqueue_calls' = nr_enqueue_calls + 1
                     /\ nr_game_dispatched' = nr_game_dispatched +
                          (IF enq_call[p].prio \in {PRIO_GAME_RENDER, PRIO_GAME_OTHER}
                           THEN 1 ELSE 0)
                     /\ nr_normal_dispatched' = nr_normal_dispatched +
                          (IF enq_call[p].prio \in {PRIO_GAME_RENDER, PRIO_GAME_OTHER}
                           THEN 0 ELSE 1)
        /\ (\A p \in Pids : ~(enq_call[p].pc = "count" /\ enq_call'[p].pc = "idle"))
             => UNCHANGED <<nr_game_dispatched, nr_normal_dispatched, nr_enqueue_calls>>
       ]_vars

\* an enqueue call has returned while another call of the same counter was
\* between its insertion and its increment
C11_Witness ==
  /\ last.op = "enqueue"
  /\ \E q \in Pids :
       /\ enq_call[q].pc = "count"
       /\ enq_call[q].seen < CounterOf(enq_call[q].prio)

\* how many times task p occurs in queue q
Occurrences(q, p) == Cardinality({i \in DOMAIN q : q[i] = p})

\* tasks in the queues f[0] .. f[n], and occurrences of p in them
RECURSIVE LenUpTo(_, _)
LenUpTo(f, n) == IF n < 0 THEN 0 ELSE Len(f[n]) + LenUpTo(f, n - 1)

RECURSIVE OccurrencesUpTo(_, _, _)
OccurrencesUpTo(f, n, p) ==
  IF n < 0 THEN 0 ELSE Occurrences(f[n], p) + OccurrencesUpTo(f, n - 1, p)

\* tasks waiting in the priority DSQs, tasks handed to the CPUs
NrQueued == LenUpTo(dsq, NR_PRIO_LEVELS - 1)
NrHandedOut == LenUpTo(local_dsq, NrCpus - 1)

\* C12: with dispatch calls of different CPUs overlapping probe by probe, on
\* the same or on different levels, a queued task is handed to at most one
\* CPU: no task is in two places (priority DSQs and local DSQs together) or
\* twice in one, the tasks handed out never outnumber the enqueue calls, and
\* a consume that succeeds takes one task out of one priority DSQ and puts
\* that task, and nothing else, on the local DSQ of the calling CPU.
C12_ConsumeHandsOutOnce ==
  /\ [](/\ \A p \in Pids :
             OccurrencesUpTo(dsq, NR_PRIO_LEVELS - 1, p)
             + OccurrencesUpTo(local_dsq, NrCpus - 1, p) <= 1
        /\ NrHandedOut <= nr_enqueue_calls
        /\ NrHandedOut + NrQueued = nr_enqueue_calls)
  /\ [][\A c \in Cpus :
          local_dsq'[c] # local_dsq[c]
            => \E l \in Levels :
                 /\ dsq[DSQ_PRIO_BASE + l] # <<>>
                 /\ local_dsq' = [local_dsq EXCEPT
                                    ![c] = Append(@, Head(dsq[DSQ_PRIO_BASE + l]))]
                 /\ dsq' = [dsq EXCEPT ![DSQ_PRIO_BASE + l] = Tail(@)]
       ]_vars

\* a dispatch call has just been handed a task while the call of another CPU,
\* already past level 0, is between two probes, and an earlier call got a task too
C12_Witness ==
  /\ last.op = "dispatch"
  /\ last.pid # 0
  /\ \E c \in Cpus \ {last.cpu} :
       /\ disp_call[c].pc = "probe"
       /\ disp_call[c].prio > 0
  /\ NrHandedOut >= 2

\* C13: the scheduler state moves only Uninitialized -> Running -> Terminated
\* (or Uninitialized -> Terminated when the load fails).  Running is entered
\* only by an init that created all four DSQs and returned 0; an init whose
\* creation of some DSQ fails returns that error and the scheduler is never
\* Running.  Outside Running no select_cpu, enqueue or dispatch is served and
\* no queue content and no counter changes, and Terminated is never left.
C13_Lifecycle ==
  /\ [](scx_state = "Running" => DOMAIN dsq = {DSQ_PRIO_BASE + l : l \in Levels})
  /\ [][/\ scx_state' # scx_state
             => \/ scx_state = "Uninitialized" /\ scx_state' \in {"Running", "Terminated"}
                \/ scx_state = "Running" /\ scx_state' = "Terminated"
        /\ (scx_state = "Uninitialized" /\ scx_state' = "Running")
             => /\ last'.op = "gamesched_init"
                /\ last'.ret = 0
                /\ last'.created = {DSQ_PRIO_BASE + l : l \in Levels}
        /\ (last'.op = "gamesched_init" /\ last'.created # {DSQ_PRIO_BASE + l : l \in Levels})
             => /\ last'.ret \in CreateErrors
                /\ scx_state' = "Terminated"
        /\ scx_state # "Running"
             => /\ last'.op \notin {"select_cpu", "enqueue", "dispatch"}
                /\ \A l \in DOMAIN dsq : dsq'[l] = dsq[l]
                /\ UNCHANGED <<local_dsq, runnable, counters, nr_enqueue_calls>>
        /\ scx_state = "Terminated" => UNCHANGED <<scx_state, dsq>>
       ]_vars

\* the scheduler has served requests and has then been terminated
C13_Witness ==
  /\ scx_state = "Terminated"
  /\ nr_game_dispatched + nr_normal_dispatched > 0
  /\ \E c \in Cpus : local_dsq[c] # <<>>
  /\ \E l \in Levels : dsq[l] # <<>>

\* C14: when game_threads (pinned_threads) holds MAX_GAME_THREADS entries,
\* add (pin) of a pid that has no entry returns an error and both tables stay
\* as they are; add (pin) of a pid that has an entry returns 0 and gives the
\* entry the new value, every other entry keeping its value.
C14_FullTableRefusesNewKey ==
  [][/\ (/\ last'.op = "cmd_add"
          /\ commands' = commands + 1
          /\ PriorityOf(last'.priority) >= 0
          /\ Cardinality(DOMAIN game_threads) = MAX_GAME_THREADS)
          => IF last'.pid \in DOMAIN game_threads
             THEN /\ last'.ret = 0
                  /\ DOMAIN game_threads' = DOMAIN game_threads
                  /\ game_threads'[last'.pid] = PriorityOf(last'.priority)
                  /\ \A k \in DOMAIN game_threads \ {last'.pid} :
                       game_threads'[k] = game_threads[k]
                  /\ pinned_threads' = pinned_threads
             ELSE /\ last'.ret < 0
                  /\ UNCHANGED <<game_threads, pinned_threads>>
     /\ (/\ last'.op = "cmd_pin"
          /\ commands' = commands + 1
          /\ Cardinality(DOMAIN pinned_threads) = MAX_GAME_THREADS)
          => IF last'.pid \in DOMAIN pinned_threads
             THEN /\ last'.ret = 0
                  /\ DOMAIN pinned_threads' = DOMAIN pinned_threads
                  /\ pinned_threads'[last'.pid] = last'.cpu
                  /\ \A k \in DOMAIN pinned_threads \ {last'.pid} :
                       pinned_threads'[k] = pinned_threads[k]
                  /\ game_threads' = game_threads
             ELSE /\ last'.ret < 0
                  /\ UNCHANGED <<game_threads, pinned_threads>>
     /\ Cardinality(DOMAIN game_threads') <= MAX_GAME_THREADS
     /\ Cardinality(DOMAIN pinned_threads') <= MAX_GAME_THREADS
    ]_vars

\* an add has been refused by the full priority table while the pin table
\* still had room
C14_Witness ==
  /\ last.op = "cmd_add"
  /\ last.ret < 0
  /\ PriorityOf(last.priority) >= 0
  /\ Cardinality(DOMAIN game_threads) = MAX_GAME_THREADS
  /\ Cardinality(DOMAIN pinned_threads) < MAX_GAME_THREADS

\* C15: remove of pid t returns 0 and leaves t in neither table, so that
\* get_task_priority(t) is PRIO_NORMAL and get_pinned_cpu(t) is -1; the
\* entries of every other pid, the isolated CPUs, the counters and the queues
\* stay as they are, and nothing at all changes when t had no entry.  A
\* select_cpu for a task without a pin entry takes the unpinned path.
C15_RemoveFrame ==
  [][/\ (last'.op = "cmd_remove" /\ commands' = commands + 1)
          => /\ last'.ret = 0
             /\ last'.pid \notin DOMAIN game_threads'
             /\ last'.pid \notin DOMAIN pinned_threads'
             /\ \A t \in Pids :
                  last'.pid = t => /\ get_task_priority(t)' = PRIO_NORMAL
                                   /\ get_pinned_cpu(t)' = -1
             /\ DOMAIN game_threads' = DOMAIN game_threads \ {last'.pid}
             /\ DOMAIN pinned_threads' = DOMAIN pinned_threads \ {last'.pid}
             /\ \A k \in DOMAIN game_threads' : game_threads'[k] = game_threads[k]
             /\ \A k \in DOMAIN pinned_threads' : pinned_threads'[k] = pinned_threads[k]
             /\ UNCHANGED <<isolated_cpus, counters, host, config>>
             /\ (last'.pid \notin DOMAIN game_threads \cup DOMAIN pinned_threads)
                  => UNCHANGED tables
     /\ (last'.op = "select_cpu" /\ wakeups' = wakeups + 1
          /\ last'.pid \notin DOMAIN pinned_threads)
          => /\ last'.pinned_cpu = -1
             /\ last'.ret = SelectUnpinned(last'.pid, last'.dfl_cpu, last'.dfl_idle).ret
    ]_vars

\* a task that was registered and pinned has been removed after the counters
\* had counted, while another task keeps its entries
C15_Witness ==
  /\ last.op = "cmd_remove"
  /\ last.registered /\ last.pinned
  /\ nr_game_dispatched + nr_normal_dispatched + nr_isolated_violations > 0
  /\ \E k \in Pids \ {last.pid} : k \in DOMAIN game_threads \cap DOMAIN pinned_threads

\* C16: a CPU id outside the valid domain never decides a selection:
\* is_cpu_isolated is false for an id that is negative or beyond the
\* isolated_cpus array, and select_cpu ignores a pin to a CPU the machine
\* does not have, so that it always returns one of the machine's CPUs (the
\* host's default pick being one).
C16_InvalidUnitNeverDecides ==
  /\ \A c \in {-1, MAX_CPUS} : ~is_cpu_isolated(c)
  /\ last.op = "select_cpu" => last.ret \in Cpus

\* C17: select_cpu dispatches the waking task directly exactly when the CPU
\* it returns was found idle: the pinned CPU on the pinned path, the default
\* pick on the unpinned path, and after a redirect that found a CPU the idle
\* state of that CPU as queried then.  The direct dispatch goes to the local
\* DSQ of the returned CPU and touches neither nr_game_dispatched nor
\* nr_normal_dispatched nor a priority DSQ.  A task not dispatched directly
\* is left for enqueue, which takes only such tasks; so, while the scheduler
\* runs, a woken task is in exactly one of: waiting for enqueue, a priority
\* DSQ, a local DSQ.
C17_EagerDispatchIffIdle ==
  /\ [](\A p \in Pids :
          (IF p \in runnable THEN 1 ELSE 0)
          + OccurrencesUpTo(dsq, NR_PRIO_LEVELS - 1, p)
          + OccurrencesUpTo(local_dsq, NrCpus - 1, p) <= 1)
  /\ [][/\ (last'.op = "select_cpu" /\ wakeups' = wakeups + 1)
          => LET p == last'.pid
                 ret == last'.ret
                 found_idle ==
                   IF last'.pinned_cpu >= 0 THEN TestCpuIdle(cpu_idle, last'.pinned_cpu)
                   ELSE IF last'.found >= 0 THEN TestCpuIdle(cpu_idle, last'.found)
                   ELSE last'.dfl_idle
             IN /\ found_idle <=> local_dsq' # local_dsq
                /\ found_idle <=> last'.pid \notin runnable'
                /\ found_idle
                     => /\ ret \in Cpus
                        /\ local_dsq' = [local_dsq EXCEPT ![ret] = Append(@, p)]
                        /\ ~cpu_idle'[ret]
                /\ UNCHANGED <<nr_game_dispatched, nr_normal_dispatched, dsq,
                               nr_enqueue_calls>>
        /\ (last'.op = "enqueue" /\ nr_enqueue_calls' = nr_enqueue_calls + 1)
          => /\ last'.pid \in runnable
             /\ last'.pid \notin runnable'
             /\ UNCHANGED local_dsq
       ]_vars

\* the default pick was idle but isolated, the redirect found a CPU, and that
\* CPU was busy: the task was not dispatched directly
C17_Witness ==
  /\ last.op = "select_cpu"
  /\ last.redirect /\ last.found >= 0
  /\ last.dfl_idle
  /\ last.direct = -1
  /\ last.pid \in runnable

\* the unregistered task waits in the NORMAL DSQ
NormalWaiting == Occurrences(dsq[DSQ_PRIO_BASE + PRIO_NORMAL], NrTasks) = 1

\* C18: dispatch has no aging.  In every fair behaviour in which render tasks
\* keep the RENDER DSQ non-empty at each dispatch, the task queued at NORMAL
\* is queued from some point on and for ever, while every CPU goes on
\* consuming render tasks: the task is never dispatched, so 'every enqueued
\* task is eventually dispatched' fails below RENDER.
C18_NormalStarves ==
  /\ <>[]NormalWaiting
  /\ \A c \in Cpus :
       []<>(/\ last.op = "dispatch"
            /\ last.cpu = c
            /\ last.level = PRIO_GAME_RENDER
            /\ NormalWaiting)

\* the unregistered task waits while the game counter has wrapped around:
\* at least CounterWrap render enqueues have passed it
C18_Witness ==
  /\ NormalWaiting
  /\ nr_normal_dispatched = 1
  /\ nr_game_dispatched = 0
  /\ last.op = "dispatch"
  /\ last.level = PRIO_GAME_RENDER

\* C19: in every reachable state a task occurs at most once in the four
\* priority DSQs and the local DSQs together: it runs, or waits at one
\* level, or is in no queue, whatever add and remove commands change its
\* class while it waits or runs.
C19_TaskInAtMostOneQueue ==
  \A p \in Pids :
    OccurrencesUpTo(dsq, NR_PRIO_LEVELS - 1, p)
    + OccurrencesUpTo(local_dsq, NrCpus - 1, p) <= 1

\* a task registered as render has been unregistered while it waits at
\* RENDER, after an enqueue at NORMAL: its class is no longer the level it is
\* queued at
C19_Witness ==
  /\ last.op = "cmd_remove"
  /\ last.registered
  /\ Occurrences(dsq[DSQ_PRIO_BASE + PRIO_GAME_RENDER], last.pid) = 1
  /\ get_task_priority(last.pid) = PRIO_NORMAL
  /\ nr_normal_dispatched >= 1
  /\ \A p \in Pids \ {last.pid} : p \notin DOMAIN game_threads

\* C20: add stores only PRIO_GAME_RENDER or PRIO_GAME_OTHER, so in every
\* reachable state get_task_priority answers RENDER, GAME_OTHER or NORMAL
\* for every task, the BACKGROUND DSQ is empty, and no dispatch has handed
\* out a task of level 3.
C20_BackgroundNeverUsed ==
  /\ \A k \in DOMAIN game_threads :
       game_threads[k] \in {PRIO_GAME_RENDER, PRIO_GAME_OTHER}
  /\ \A p \in Pids :
       get_task_priority(p) \in {PRIO_GAME_RENDER, PRIO_GAME_OTHER, PRIO_NORMAL}
  /\ dsq[DSQ_PRIO_BASE + PRIO_BACKGROUND] = <<>>
  /\ last.op = "dispatch" => last.level # PRIO_BACKGROUND
  /\ last.op = "enqueue" => last.level # PRIO_BACKGROUND

\* add --priority background has been refused for a task that waits at NORMAL
C20_Witness ==
  /\ last.op = "cmd_add"
  /\ last.priority = "background"
  /\ last.ret < 0
  /\ Occurrences(dsq[DSQ_PRIO_BASE + PRIO_NORMAL], last.pid) = 1
  /\ last.pid \notin DOMAIN game_threads

\* C21: select_cpu claims a CPU only when it dispatches the task to it: every
\* CPU whose idle state is cleared during a select_cpu call, by the default
\* pick or by the test-and-clear of the pinned or the found CPU, has the task
\* on its local DSQ after the call.
C21_ClaimedCpuGetsTask ==
  [][(last'.op = "select_cpu" /\ wakeups' = wakeups + 1)
       => \A c \in Cpus :
            (cpu_idle[c] /\ ~cpu_idle'[c])
              => local_dsq'[c] = Append(local_dsq[c], last'.pid)
    ]_vars

====
